---- MODULE Spec2Model ----
(***************************************************************************)
(* A state-machine model of the voice-chat pipeline of src/src/main.rs:    *)
(* main's start-up, the network task (bind, discovery, connect, the send   *)
(* and the receive loop), the capture callback (frame assembly, encode,    *)
(* framing, try_send), the decode task and the playback callback.          *)
(*                                                                         *)
(* Audio samples are opaque to every operation but sample_to_f32, so the   *)
(* pipeline carries each sample as its ordinal (the k-th captured sample   *)
(* is k, the k-th decoded sample is k) and an encoded payload as bytes     *)
(* that all hold the ordinal of the frame they encode.  sample_to_f32 is   *)
(* modelled on numbers further down, under its own specification.          *)
(***************************************************************************)
EXTENDS Integers, Sequences, FiniteSets, TLC

\* ---------------------------------------------------------------- bounds
\* Scaled stand-ins for the program's sizes (main.rs:47, :48, :138/:140,
\* :181); the code's behaviour depends on them only through comparisons.
FRAME_SAMPLES == 2      \* 960 in the source
MAX_PACKET_SIZE == 2    \* 400 in the source
CHANNEL_CAP == 2        \* bounded(1024) in the source
RING_FRAMES == 1        \* the ring holds FRAME_SAMPLES * 10 in the source

\* MAX_PACKET_SIZE as the source has it.
MAX_PACKET_SIZE_SRC == 400

\* Bounds of the exploration.
MaxSamples == 6         \* samples the capture device delivers in a run
MaxChunk == 3           \* longest capture callback buffer
MaxDatagrams == 2       \* returns of sock_recv.recv in a run
MaxOversize == 1        \* how far a datagram may exceed the receive buffer
MaxPlay == 3            \* samples the output device asks for in a run
MaxOut == 2             \* longest playback callback buffer
MaxLinkFrames == 2      \* frames a remote peer's capture callback completes

VARIABLES
    mainpc,       \* main's position
    netpc,        \* network_task's position
    peer,         \* args.peer: TRUE when a peer address was supplied
    connected,    \* the socket has been connect()ed
    \* capture callback
    inRem,        \* samples left in the running capture callback (0: idle)
    captured,     \* samples delivered by the input device so far
    frame_buf,    \* the accumulator
    tmp,          \* the frame handed to processing and encoding
    procFailed,   \* process_capture_frame returned Err on that frame
    nFrames,      \* frames handed to the encoder so far
    encoded,      \* frames encoded successfully: their wire messages, in order
    outbound,     \* the net_tx/net_rx channel
    sent,         \* datagrams written to the socket by the send task
    \* receive loop
    nRecv,        \* times sock_recv.recv has returned
    wire,         \* the datagram the last recv took from the socket
    buf,          \* the receive buffer
    inbound,      \* the play_tx/play_rx channel
    \* decode task
    decpc,        \* decode_task's position
    pcm_buf,      \* decoder output buffer
    sz,           \* samples of pcm_buf the last decode wrote
    pushIdx,      \* next index of pcm_buf to push
    nDecoded,     \* samples decoded so far
    decErrs,      \* "opus decode error" lines written to stderr
    ring,         \* the jitter buffer
    \* playback callback
    outRem,       \* samples left in the running playback callback (0: idle)
    played,       \* samples written to the output device so far
    lastOut,      \* the sample written last
    heard,        \* the sample taken from the ring and written last (0: none)
    \* sample_to_f32
    fmt,          \* the input stream's sample format T
    raw,          \* a sample of that format, as the fraction <<num, den>>
    norm,         \* what sample_to_f32 returned for it (<<>>: not called yet)
    \* environment
    load,         \* what the devices and the network deliver in this run
    \* a remote peer connected to this one
    bEncoded,     \* the messages its capture callback built, in order
    bOutbound,    \* its net_tx/net_rx channel
    link          \* the datagrams its send task wrote to this peer, in order

vars == <<mainpc, netpc, peer, connected, inRem, captured, frame_buf, tmp,
          procFailed,
          nFrames, encoded, outbound, sent, nRecv, wire, buf, inbound, decpc,
          pcm_buf, sz, pushIdx, nDecoded, decErrs, ring, outRem, played, lastOut,
          heard,
          fmt, raw, norm, load, bEncoded, bOutbound, link>>

txVars == <<inRem, captured, frame_buf, tmp, procFailed, nFrames, encoded>>
rxVars == <<nRecv, wire, buf>>
decVars == <<decpc, pcm_buf, sz, pushIdx, nDecoded, decErrs>>
playVars == <<outRem, played, lastOut, heard>>
normVars == <<fmt, raw, norm>>
linkVars == <<bEncoded, bOutbound, link>>

\* ---------------------------------------------------------------- helpers
Min(a, b) == IF a < b THEN a ELSE b

Zeros(n) == [i \in 1..n |-> 0]

\* `len as u16`
AsU16(n) == n % 65536

\* A variant that writes the high byte first.
PutU16Be(v) == <<v \div 256, v % 256>>

\* BytesMut::put_u16_le
PutU16Le(v) == <<v % 256, v \div 256>>

\* u16::from_le_bytes([b0, b1]) as usize
U16FromLe(b0, b1) == b0 + 256 * b1

\* The bytes encode_float leaves in pkt_buf[..len] for frame number f.
Payload(f, len) == [i \in 1..len |-> f]

\* A variant whose header counts its own two bytes as well.
WireMessageTotalLen(payload) == PutU16Le(AsU16(Len(payload) + 2)) \o payload

\* out = put_u16_le(len as u16) ++ pkt_buf[..len]
WireMessage(payload) == PutU16Le(AsU16(Len(payload))) \o payload

\* A variant that makes room in a full channel by dropping its oldest item.
TrySendDropOldest(q, x, closed) ==
    IF closed THEN q
    ELSE IF Len(q) >= CHANNEL_CAP THEN Append(Tail(q), x) ELSE Append(q, x)

\* A variant that puts the new item at the front of the channel.
TrySendFront(q, x, closed) ==
    IF closed \/ Len(q) >= CHANNEL_CAP THEN q ELSE <<x>> \o q

\* async_channel's Sender::try_send on a bounded(CHANNEL_CAP) channel:
\* Err(Closed) when every receiver is gone, Err(Full) at capacity; the
\* callers drop the error (`let _ =`).
TrySend(q, x, closed) ==
    IF closed \/ Len(q) >= CHANNEL_CAP THEN q ELSE Append(q, x)

\* network_task returned: its Receiver<Bytes> and Sender<Vec<u8>> are dropped.
NetGone == netpc = "failed"

Exited == mainpc = "exited"

\* input_stream.play() / output_stream.play() have been called
StreamsPlaying == mainpc \in {"playing", "running"}

\* ---------------------------------------------------------------- mutexes
\* The mutexes each thread or task locks: `enc.lock()` in the capture
\* callback, `dec.lock().await` in decode_task, none in the playback
\* callback, in main after the streams are built, or in network_task and
\* its send and receive tasks.
CaptureLocks == {"enc"}
PlaybackLocks == {}
NetworkLocks == {}

\* A variant in which decode_task locks the encoder's mutex as well.
DecodeLocksShared == {"dec", "enc"}

DecodeLocks == {"dec"}

\* The mutexes held between two steps.  The capture callback's guard is
\* taken and dropped within one pass of its loop; decode_task's guard
\* lives to the end of the loop body, through the pushes.
Held(pc) == IF pc = "push" THEN DecodeLocks \cup NetworkLocks ELSE NetworkLocks

\* ---------------------------------------------------------------- start-up
InitPipeline ==
    /\ mainpc = "init"
    /\ netpc = "unspawned"
    /\ peer \in BOOLEAN
    /\ connected = FALSE
    /\ inRem = 0
    /\ captured = 0
    /\ frame_buf = <<>>
    /\ tmp = Zeros(FRAME_SAMPLES)
    /\ procFailed = FALSE
    /\ nFrames = 0
    /\ encoded = <<>>
    /\ outbound = <<>>
    /\ sent = <<>>
    /\ nRecv = 0
    /\ wire = <<>>
    /\ buf = Zeros(MAX_PACKET_SIZE + 2)
    /\ inbound = <<>>
    /\ decpc = "unspawned"
    /\ pcm_buf = Zeros(FRAME_SAMPLES)
    /\ sz = 0
    /\ pushIdx = 1
    /\ nDecoded = 0
    /\ decErrs = 0
    /\ ring = <<>>
    /\ outRem = 0
    /\ played = 0
    /\ lastOut = 0
    /\ heard = 0
    /\ bEncoded = <<>>
    /\ bOutbound = <<>>
    /\ link = <<>>

\* The pipeline starts on an f32 input device with no sample converted yet.
NormIdle ==
    /\ fmt = "f32"
    /\ raw = <<0, 1>>
    /\ norm = <<>>

\* A run's workload: the samples the input device delivers, the returns of
\* sock_recv.recv, and the samples the output device asks for.  The two
\* directions of the pipeline share nothing but the start-up, so the runs
\* explored load one direction fully (capture; receive with playback;
\* receive past the inbound queue's capacity with a silent output device),
\* or both lightly.
TxLoad == [samples |-> MaxSamples, datagrams |-> 0, play |-> 0]
RxLoad == [samples |-> 0, datagrams |-> MaxDatagrams, play |-> MaxPlay]
FloodLoad == [samples |-> 0, datagrams |-> CHANNEL_CAP + 1, play |-> 0]
MixedLoad == [samples |-> FRAME_SAMPLES, datagrams |-> 1, play |-> 1]
Workloads == {TxLoad, RxLoad, FloodLoad, MixedLoad}

Init ==
    /\ InitPipeline
    /\ NormIdle
    /\ load \in Workloads

InitTx ==
    /\ InitPipeline
    /\ NormIdle
    /\ load = TxLoad

InitRx ==
    /\ InitPipeline
    /\ NormIdle
    /\ load = RxLoad

\* task::spawn(network_task(...))
MainSpawnNetwork ==
    /\ mainpc = "init"
    /\ mainpc' = "net_spawned"
    /\ netpc' = "bind"
    /\ UNCHANGED <<peer, connected, txVars, outbound, sent, rxVars, inbound,
                   decVars, ring, playVars, normVars, load, linkVars>>

\* Encoder, decoder, ring, build_input_stream, build_output_stream, play():
\* every `?` on the way returns from main, which ends the process.
MainStartStreams ==
    /\ mainpc = "net_spawned"
    /\ \E ok \in BOOLEAN :
          /\ mainpc' = IF ok THEN "playing" ELSE "exited"
    /\ UNCHANGED <<netpc, peer, connected, txVars, outbound, sent, rxVars,
                   inbound, decVars, ring, playVars, normVars, load, linkVars>>

\* task::spawn(decode_task(...)), then main waits for ctrl_c
MainSpawnDecode ==
    /\ mainpc = "playing"
    /\ mainpc' = "running"
    /\ decpc' = "recv"
    /\ UNCHANGED <<netpc, peer, connected, txVars, outbound, sent, rxVars,
                   inbound, pcm_buf, sz, pushIdx, nDecoded, decErrs, ring, playVars,
                   normVars, load, linkVars>>

\* ctrl_c: main returns and the process ends with every task and stream
Shutdown ==
    /\ mainpc = "running"
    /\ mainpc' = "exited"
    /\ UNCHANGED <<netpc, peer, connected, txVars, outbound, sent, rxVars,
                   inbound, decVars, ring, playVars, normVars, load, linkVars>>

\* ---------------------------------------------------------------- network_task
\* UdpSocket::bind(local_addr).await?
NetBind ==
    /\ ~Exited
    /\ netpc = "bind"
    /\ \E ok \in BOOLEAN :
          /\ netpc' = IF ok THEN "discover" ELSE "failed"
    /\ UNCHANGED <<mainpc, peer, connected, txVars, outbound, sent, rxVars,
                   inbound, decVars, ring, playVars, normVars, load, linkVars>>

\* discover_public(&sock).await?
NetDiscover ==
    /\ ~Exited
    /\ netpc = "discover"
    /\ \E ok \in BOOLEAN :
          /\ netpc' = IF ok THEN "connect" ELSE "failed"
    /\ UNCHANGED <<mainpc, peer, connected, txVars, outbound, sent, rxVars,
                   inbound, decVars, ring, playVars, normVars, load, linkVars>>

\* if let Some(peer) = &remote_addr { sock.connect(peer).await?; } and the
\* two task::spawn calls that follow
NetConnect ==
    /\ ~Exited
    /\ netpc = "connect"
    /\ IF peer
       THEN \E ok \in BOOLEAN :
               /\ netpc' = IF ok THEN "running" ELSE "failed"
               /\ connected' = ok
       ELSE /\ netpc' = "running"
            /\ connected' = FALSE
    /\ UNCHANGED <<mainpc, peer, txVars, outbound, sent, rxVars, inbound,
                   decVars, ring, playVars, normVars, load, linkVars>>

\* A variant that sends whether or not a peer was given.
has_peer_always == TRUE

\* A variant that looks at the session again for each packet and stops
\* sending after the first datagram.
has_peer_once == peer /\ sent = <<>>

\* let has_peer = remote_addr.is_some();
has_peer == peer

\* One iteration of the send task's loop: outbound.recv().await, then
\* sock.send(&pkt) when has_peer; a send error is logged and the loop goes on.
SendStep ==
    /\ ~Exited
    /\ netpc = "running"
    /\ outbound # <<>>
    /\ outbound' = Tail(outbound)
    /\ IF has_peer
       THEN \E ok \in BOOLEAN :
               /\ sent' = IF ok THEN Append(sent, Head(outbound)) ELSE sent
       ELSE /\ sent' = sent
    /\ UNCHANGED <<mainpc, netpc, peer, connected, txVars, rxVars, inbound,
                   decVars, ring, playVars, normVars, load, linkVars>>

\* ---------------------------------------------------------------- capture callback
\* A variant whose accumulator starts empty in every call of the closure.
CaptureBeginFresh ==
    /\ StreamsPlaying
    /\ inRem = 0
    /\ \E n \in 1..MaxChunk :
          /\ captured + n <= load.samples
          /\ inRem' = n
    /\ frame_buf' = <<>>
    /\ UNCHANGED <<mainpc, netpc, peer, connected, captured, tmp,
                   procFailed, nFrames, encoded, outbound, sent, rxVars, inbound, decVars,
                   ring, playVars, normVars, load, linkVars>>

\* The input device calls the closure with a buffer of n samples.
CaptureBegin ==
    /\ StreamsPlaying
    /\ inRem = 0
    /\ \E n \in 1..MaxChunk :
          /\ captured + n <= load.samples
          /\ inRem' = n
    /\ UNCHANGED <<mainpc, netpc, peer, connected, captured, frame_buf, tmp,
                   procFailed, nFrames, encoded, outbound, sent, rxVars, inbound, decVars,
                   ring, playVars, normVars, load, linkVars>>

\* A variant that hands the accumulator on one sample early.
FrameCompleteEarly(fb) == Len(fb) >= FRAME_SAMPLES - 1

\* if frame_buf.len() == FRAME_SAMPLES
FrameComplete(fb) == Len(fb) = FRAME_SAMPLES

\* What encode_float can return into a MAX_PACKET_SIZE buffer: Err (-1) or
\* Ok(len), len <= MAX_PACKET_SIZE.
EncodeResults == {-1} \cup (0..MAX_PACKET_SIZE)

\* A variant that keeps all but the oldest sample for the next frame.
ClearFrameBufKeepsTail(fb) == Tail(fb)

\* frame_buf.clear()
ClearFrameBuf(fb) == <<>>

\* A variant that gives up the frame when processing failed.
EncodeAfterChecked(procOk, res) == IF procOk THEN res ELSE -1

\* `let _ = ap.process_capture_frame(&mut tmp);` drops the Result: the
\* encoder runs on tmp either way and returns what it returns.
EncodeAfter(procOk, res) == res

\* One pass of `for &sample in data`; enc.lock() waits while another
\* thread holds the encoder's mutex.  The result of process_capture_frame
\* is dropped (`let _ =`), and what it does to the values in tmp is not
\* followed: tmp keeps the samples' ordinals.
CaptureSample ==
    /\ StreamsPlaying
    /\ inRem > 0
    /\ inRem' = inRem - 1
    /\ captured' = captured + 1
    /\ LET fb == Append(frame_buf, captured + 1) IN
       IF FrameComplete(fb)
       THEN \E procOk \in BOOLEAN, res \in EncodeResults :
               /\ CaptureLocks \cap Held(decpc) = {}
               /\ tmp' = fb
               /\ procFailed' = ~procOk
               /\ nFrames' = nFrames + 1
               /\ LET r == EncodeAfter(procOk, res) IN
                  IF r >= 0
                  THEN LET out == WireMessage(Payload(nFrames + 1, r)) IN
                       /\ encoded' = Append(encoded, out)
                       /\ outbound' = TrySend(outbound, out, NetGone)
                  ELSE /\ encoded' = encoded
                       /\ outbound' = outbound
               /\ frame_buf' = ClearFrameBuf(fb)
       ELSE /\ frame_buf' = fb
            /\ UNCHANGED <<tmp, procFailed, nFrames, encoded, outbound>>
    /\ UNCHANGED <<mainpc, netpc, peer, connected, sent, rxVars, inbound,
                   decVars, ring, playVars, normVars, load, linkVars>>

NextTx ==
    \/ MainSpawnNetwork
    \/ MainStartStreams
    \/ MainSpawnDecode
    \/ Shutdown
    \/ NetBind
    \/ NetDiscover
    \/ NetConnect
    \/ SendStep
    \/ CaptureBegin
    \/ CaptureSample

SpecTx == InitTx /\ [][NextTx]_vars

\* ---------------------------------------------------------------- receive loop
\* let mut buf = [0u8; MAX_PACKET_SIZE + 2];
BufSize == MAX_PACKET_SIZE + 2

\* Bytes a datagram of the exploration may hold: the lengths 0, 1, the
\* maximum and one past it, and the largest byte.
ByteVals == {0, 1, MAX_PACKET_SIZE, MAX_PACKET_SIZE + 1, 255}

RECURSIVE SeqsUpTo(_, _)
SeqsUpTo(S, n) ==
    IF n = 0 THEN {<<>>}
    ELSE LET shorter == SeqsUpTo(S, n - 1) IN
         shorter \cup {Append(s, x) : s \in {t \in shorter : Len(t) = n - 1}, x \in S}

\* Every datagram of at most BufSize + MaxOversize bytes over ByteVals.
Datagrams == SeqsUpTo(ByteVals, BufSize + MaxOversize)

\* The datagrams of the pipeline's exploration, the k-th with a body whose
\* bytes all hold k: every well-formed message, and one datagram of each
\* malformed kind (no header, a declared length past the end, bytes after
\* the declared length, longer than the receive buffer).
PipeDatagrams(k) ==
    {WireMessage([i \in 1..m |-> k]) : m \in 0..MAX_PACKET_SIZE}
    \cup {<<1>>,
          <<MAX_PACKET_SIZE, 0, k>>,
          <<0, 0, k>>,
          <<MAX_PACKET_SIZE, 0>> \o [i \in 1..(MAX_PACKET_SIZE + MaxOversize) |-> k]}

\* sock_recv.recv(&mut buf) on a datagram d: the first BufSize bytes of d
\* overwrite the front of buf, the rest of buf keeps what it held.
RecvInto(b, d) == [i \in 1..BufSize |-> IF i <= Len(d) THEN d[i] ELSE b[i]]

\* Ok(sz): the number of bytes written into buf
RecvSize(d) == Min(Len(d), BufSize)

\* A variant that reads the header big-endian.
DeclaredLenBe(b) == U16FromLe(b[2], b[1])

\* let len = u16::from_le_bytes([buf[0], buf[1]]) as usize;
DeclaredLen(b) == U16FromLe(b[1], b[2])

\* A variant that also turns away a datagram whose declared length is
\* exactly the number of bytes that follow the header.
AcceptsStrict(b, n) == ~(n < 2) /\ ~(DeclaredLen(b) + 2 >= n)

\* Neither `if n < 2 { continue; }` nor `if len + 2 > n { continue; }` fires.
Accepts(b, n) == ~(n < 2) /\ ~(DeclaredLen(b) + 2 > n)

\* buf[2..2 + len].to_vec()
PayloadOf(b) == SubSeq(b, 3, 2 + DeclaredLen(b))

\* One iteration of the receive task's loop on datagram d.  A datagram
\* longer than buf is cut to BufSize bytes by recv (POSIX) or makes recv
\* return an error (WSAEMSGSIZE on Windows); the build decides which.
Recv(d) ==
    /\ ~Exited
    /\ netpc = "running"
    /\ nRecv < load.datagrams
    /\ nRecv' = nRecv + 1
    /\ wire' = d
    /\ \E truncates \in BOOLEAN :
          IF Len(d) > BufSize /\ ~truncates
          THEN UNCHANGED <<buf, inbound>>
          ELSE LET b == RecvInto(buf, d)
                   n == RecvSize(d) IN
               /\ buf' = b
               /\ IF Accepts(b, n)
                  THEN /\ inbound' = TrySend(inbound, PayloadOf(b), FALSE)
                  ELSE /\ inbound' = inbound
    /\ UNCHANGED <<mainpc, netpc, peer, connected, txVars, outbound, sent,
                   decVars, ring, playVars, normVars, load>>

RecvStep ==
    /\ \E d \in PipeDatagrams(nRecv + 1) : Recv(d)
    /\ UNCHANGED linkVars

\* A variant in which a receive error ends network_task.
RecvErrorReturns ==
    /\ ~Exited
    /\ netpc = "running"
    /\ nRecv < load.datagrams
    /\ nRecv' = nRecv + 1
    /\ wire' = <<>>
    /\ netpc' = "failed"
    /\ UNCHANGED <<mainpc, peer, connected, txVars, outbound, sent,
                   buf, inbound, decVars, ring, playVars, normVars, load, linkVars>>

\* sock_recv.recv returns Err for a reason of the socket's own: logged, and
\* the loop goes on.
RecvError ==
    /\ ~Exited
    /\ netpc = "running"
    /\ nRecv < load.datagrams
    /\ nRecv' = nRecv + 1
    /\ wire' = <<>>
    /\ UNCHANGED <<mainpc, netpc, peer, connected, txVars, outbound, sent,
                   buf, inbound, decVars, ring, playVars, normVars, load, linkVars>>

\* ---------------------------------------------------------------- decode task
\* HeapRb::<f32>::new(FRAME_SAMPLES * 10)
RingCap == FRAME_SAMPLES * RING_FRAMES

\* A variant that makes room by dropping the oldest sample.
PushDropOldest(rb, s) ==
    IF Len(rb) >= RingCap THEN Append(Tail(rb), s) ELSE Append(rb, s)

\* ringbuf's Producer::push: Err(elem) when the ring is full, and the
\* caller drops the error (`let _ =`).
Push(rb, s) == IF Len(rb) >= RingCap THEN rb ELSE Append(rb, s)

\* What decode_float can return into pcm_buf: Err (-1) or Ok(sz),
\* sz <= FRAME_SAMPLES * CHANNELS.
DecodeResults == {-1} \cup (0..FRAME_SAMPLES)

\* A variant that returns from decode_task on a decode error.
DecodeErrReturns ==
    /\ decErrs' = decErrs + 1
    /\ decpc' = "done"
    /\ UNCHANGED <<pcm_buf, sz, pushIdx, nDecoded>>

\* Err(e) => eprintln!("opus decode error: {e}")
DecodeErr ==
    /\ decErrs' = decErrs + 1
    /\ UNCHANGED <<decpc, pcm_buf, sz, pushIdx, nDecoded>>

\* inbound.recv().await returned Ok(pkt); dec.decode_float(&pkt, &mut pcm_buf)
DecodeRecv ==
    /\ ~Exited
    /\ decpc = "recv"
    /\ inbound # <<>>
    /\ inbound' = Tail(inbound)
    /\ \E r \in DecodeResults :
          IF r >= 0
          THEN /\ pcm_buf' = [i \in 1..FRAME_SAMPLES |->
                                 IF i <= r THEN nDecoded + i ELSE pcm_buf[i]]
               /\ nDecoded' = nDecoded + r
               /\ sz' = r
               /\ pushIdx' = 1
               /\ decpc' = IF r > 0 THEN "push" ELSE "recv"
               /\ decErrs' = decErrs
          ELSE DecodeErr
    /\ UNCHANGED <<mainpc, netpc, peer, connected, txVars, outbound, sent,
                   rxVars, ring, playVars, normVars, load, linkVars>>

\* One pass of `for &s in &pcm_buf[..sz] { let _ = producer.push(s); }`
DecodePush ==
    /\ ~Exited
    /\ decpc = "push"
    /\ ring' = Push(ring, pcm_buf[pushIdx])
    /\ pushIdx' = pushIdx + 1
    /\ decpc' = IF pushIdx + 1 > sz THEN "recv" ELSE "push"
    /\ UNCHANGED <<mainpc, netpc, peer, connected, txVars, outbound, sent,
                   rxVars, inbound, pcm_buf, sz, nDecoded, decErrs, playVars, normVars,
                   load, linkVars>>

\* inbound.recv().await returned Err: the channel is empty and its only
\* Sender, held by network_task, is gone.
DecodeExit ==
    /\ ~Exited
    /\ decpc = "recv"
    /\ inbound = <<>>
    /\ NetGone
    /\ decpc' = "done"
    /\ UNCHANGED <<mainpc, netpc, peer, connected, txVars, outbound, sent,
                   rxVars, inbound, pcm_buf, sz, pushIdx, nDecoded, decErrs, ring, playVars,
                   normVars, load, linkVars>>

\* ---------------------------------------------------------------- playback callback
\* unwrap_or(0.0)
Silence == 0

\* The output device calls the closure with a buffer of n samples to fill.
PlaybackBegin ==
    /\ StreamsPlaying
    /\ outRem = 0
    /\ \E n \in 1..MaxOut :
          /\ played + n <= load.play
          /\ outRem' = n
    /\ UNCHANGED <<mainpc, netpc, peer, connected, txVars, outbound, sent,
                   rxVars, inbound, decVars, ring, played, lastOut, heard, normVars,
                   load, linkVars>>

\* A variant that reads the newest sample of the ring.
PopOrNewest(rb) == IF rb = <<>> THEN Silence ELSE rb[Len(rb)]

\* consumer.pop().unwrap_or(0.0): the sample written
PopOr(rb) == IF rb = <<>> THEN Silence ELSE Head(rb)

\* consumer.pop(): the ring afterwards
PopRest(rb) == IF rb = <<>> THEN rb ELSE Tail(rb)

\* A variant that waits for the decode task when the ring is empty.
PlaybackSampleWaits ==
    /\ StreamsPlaying
    /\ outRem > 0
    /\ ring # <<>>
    /\ outRem' = outRem - 1
    /\ played' = played + 1
    /\ lastOut' = Head(ring)
    /\ heard' = Head(ring)
    /\ ring' = Tail(ring)
    /\ UNCHANGED <<mainpc, netpc, peer, connected, txVars, outbound, sent,
                   rxVars, inbound, decVars, normVars, load, linkVars>>

\* One pass of `for sample in out`.
PlaybackSample ==
    /\ StreamsPlaying
    /\ outRem > 0
    /\ PlaybackLocks \cap Held(decpc) = {}
    /\ outRem' = outRem - 1
    /\ played' = played + 1
    /\ lastOut' = PopOr(ring)
    /\ heard' = IF ring = <<>> THEN heard ELSE PopOr(ring)
    /\ ring' = PopRest(ring)
    /\ UNCHANGED <<mainpc, netpc, peer, connected, txVars, outbound, sent,
                   rxVars, inbound, decVars, normVars, load, linkVars>>

NextRx ==
    \/ MainSpawnNetwork
    \/ MainStartStreams
    \/ MainSpawnDecode
    \/ Shutdown
    \/ NetBind
    \/ NetDiscover
    \/ NetConnect
    \/ RecvStep
    \/ RecvError
    \/ DecodeRecv
    \/ DecodePush
    \/ DecodeExit
    \/ PlaybackBegin
    \/ PlaybackSample

SpecRx == InitRx /\ [][NextRx]_vars

Next ==
    \/ MainSpawnNetwork
    \/ MainStartStreams
    \/ MainSpawnDecode
    \/ Shutdown
    \/ NetBind
    \/ NetDiscover
    \/ NetConnect
    \/ SendStep
    \/ CaptureBegin
    \/ CaptureSample
    \/ RecvStep
    \/ RecvError
    \/ DecodeRecv
    \/ DecodePush
    \/ DecodeExit
    \/ PlaybackBegin
    \/ PlaybackSample

Spec == Init /\ [][Next]_vars

\* ---------------------------------------------------------------- network_task alone
\* Both loops of network_task at work on two frames and two datagrams,
\* with decode_task not yet scheduled and the output device silent.
NetLoad == [samples |-> 2 * FRAME_SAMPLES, datagrams |-> 2, play |-> 0]

InitNet ==
    /\ InitPipeline
    /\ NormIdle
    /\ load = NetLoad

NextNet ==
    \/ MainSpawnNetwork
    \/ MainStartStreams
    \/ MainSpawnDecode
    \/ Shutdown
    \/ NetBind
    \/ NetDiscover
    \/ NetConnect
    \/ SendStep
    \/ CaptureBegin
    \/ CaptureSample
    \/ RecvStep
    \/ RecvError

SpecNet == InitNet /\ [][NextNet]_vars

\* ---------------------------------------------------------------- the receive loop alone
\* The first datagram a started receive loop takes, drawn from every
\* datagram over ByteVals.
WireRecv ==
    /\ nRecv = 0
    /\ \E d \in Datagrams : Recv(d)
    /\ UNCHANGED linkVars

NextWire ==
    \/ MainSpawnNetwork
    \/ NetBind
    \/ NetDiscover
    \/ NetConnect
    \/ WireRecv

SpecWire == InitRx /\ [][NextWire]_vars

\* ---------------------------------------------------------------- two peers
\* Peer A is the pipeline above, started without --peer.  Peer B runs the
\* same program with --peer set to the address A discovered, and has passed
\* connect(); of B only the capture-to-socket half is followed, on the
\* variables bEncoded, bOutbound and link.  The network between them hands
\* B's datagrams to A's socket in the order B wrote them.  A's microphone
\* is silent while B's frames flow and A's speaker runs (LinkLoad), or A
\* captures a frame of its own while one frame of B's arrives (TalkLoad).
LinkLoad == [samples |-> 0, datagrams |-> MaxLinkFrames, play |-> 1]
TalkLoad == [samples |-> FRAME_SAMPLES, datagrams |-> 1, play |-> 0]

InitLink ==
    /\ InitPipeline
    /\ NormIdle
    /\ ~peer
    /\ load \in {LinkLoad, TalkLoad}

\* B's capture callback completes a frame: encode_float, put_u16_le,
\* extend_from_slice, try_send.  B was given the address A discovered, so
\* it runs once A's discovery is over.
BFrame ==
    /\ netpc \in {"connect", "running"}
    /\ Len(bEncoded) < load.datagrams
    /\ \E r \in EncodeResults :
          IF r >= 0
          THEN LET out == WireMessage(Payload(Len(bEncoded) + 1, r)) IN
               /\ bEncoded' = Append(bEncoded, out)
               /\ bOutbound' = TrySend(bOutbound, out, FALSE)
          ELSE UNCHANGED <<bEncoded, bOutbound>>
    /\ UNCHANGED <<mainpc, netpc, peer, connected, txVars, outbound, sent,
                   rxVars, inbound, decVars, ring, playVars, normVars, load,
                   link>>

\* One iteration of B's send task, whose has_peer is true.
BSend ==
    /\ bOutbound # <<>>
    /\ bOutbound' = Tail(bOutbound)
    /\ \E ok \in BOOLEAN :
          /\ link' = IF ok THEN Append(link, Head(bOutbound)) ELSE link
    /\ UNCHANGED <<mainpc, netpc, peer, connected, txVars, outbound, sent,
                   rxVars, inbound, decVars, ring, playVars, normVars, load,
                   bEncoded>>

\* One iteration of A's receive loop on the next datagram B wrote.
LinkRecv ==
    /\ nRecv < Len(link)
    /\ Recv(link[nRecv + 1])
    /\ UNCHANGED linkVars

\* The steps in which nothing of what the scenario assumes away happens:
\* no payload fails to decode, the receive loop finds
\* room in the inbound queue, and the decode task finds room in the ring.
LinkAssumed ==
    /\ decErrs' = decErrs
    /\ nRecv' # nRecv => Len(inbound) < CHANNEL_CAP
    /\ pushIdx' = pushIdx + 1 => Len(ring) < RingCap

NextLink ==
    \/ MainSpawnNetwork /\ LinkAssumed
    \/ MainStartStreams /\ LinkAssumed
    \/ MainSpawnDecode /\ LinkAssumed
    \/ NetBind /\ LinkAssumed
    \/ NetDiscover /\ LinkAssumed
    \/ NetConnect /\ LinkAssumed
    \/ SendStep /\ LinkAssumed
    \/ CaptureBegin /\ LinkAssumed
    \/ CaptureSample /\ LinkAssumed
    \/ BFrame /\ LinkAssumed
    \/ BSend /\ LinkAssumed
    \/ LinkRecv /\ LinkAssumed
    \/ DecodeRecv /\ LinkAssumed
    \/ DecodePush /\ LinkAssumed
    \/ DecodeExit /\ LinkAssumed
    \/ PlaybackBegin /\ LinkAssumed
    \/ PlaybackSample /\ LinkAssumed

\* Both peers stay up (no ctrl_c), and the tokio runtime runs every task
\* that is ready: main up to its wait for ctrl_c,
\* network_task, both peers' send tasks, the receive task and decode_task.
\* The audio devices and ctrl_c owe nothing.
LinkFairness ==
    /\ WF_vars(MainSpawnNetwork)
    /\ WF_vars(MainStartStreams)
    /\ WF_vars(MainSpawnDecode)
    /\ WF_vars(NetBind)
    /\ WF_vars(NetDiscover)
    /\ WF_vars(NetConnect)
    /\ WF_vars(SendStep)
    /\ WF_vars(BSend)
    /\ WF_vars(LinkRecv /\ LinkAssumed)
    /\ WF_vars(DecodeRecv /\ LinkAssumed)
    /\ WF_vars(DecodePush /\ LinkAssumed)

SpecLink == InitLink /\ [][NextLink]_vars /\ LinkFairness

\* ---------------------------------------------------------------- sample_to_f32
\* i16::MAX, u16::MAX
I16_MAX == 32767
U16_MAX == 65535
I16_MIN == -I16_MAX - 1

\* How far from 0 and from each end of a format's range the samples of the
\* exploration go.
NormSpan == 12

\* build_input_stream instantiates build_input::<T> for these T.
Formats == {"i16", "u16", "f32"}

\* Samples of format f: values at both ends and in the middle of an
\* integer format's range; for f32 the quarters of the range [-1, 1] in
\* which a device delivers floats.
Samples(f) ==
    CASE f = "i16" ->
            {<<v, 1>> : v \in (I16_MIN..(I16_MIN + NormSpan))
                             \cup ((-NormSpan)..NormSpan)
                             \cup ((I16_MAX - NormSpan)..I16_MAX)}
      [] f = "u16" ->
            {<<v, 1>> : v \in (0..NormSpan)
                             \cup (((U16_MAX \div 2) - NormSpan)..((U16_MAX \div 2) + NormSpan))
                             \cup ((U16_MAX - NormSpan)..U16_MAX)}
      [] OTHER -> {<<k, 4>> : k \in (-4)..4}

\* sample_to_f32 on exact fractions.  The f32 roundings of the source are
\* monotone and keep -1 and 1 fixed, so they change no comparison of the
\* result with -1 or 1 that is made below on multiples of 1/I16_MAX and
\* 1/U16_MAX: -32768/32767 rounds to -1.0000305, not to -1.
sample_to_f32(f, s) ==
    CASE f = "i16" -> <<s[1], I16_MAX>>
      [] f = "u16" -> <<2 * s[1] - U16_MAX, U16_MAX>>
      [] OTHER -> s

InitNorm ==
    /\ InitPipeline
    /\ load = MixedLoad
    /\ fmt \in Formats
    /\ raw \in Samples(fmt)
    /\ norm = <<>>

\* frame_buf.push(sample_to_f32(sample)) on the sample `raw`
Normalize ==
    /\ norm = <<>>
    /\ norm' = sample_to_f32(fmt, raw)
    /\ UNCHANGED <<mainpc, netpc, peer, connected, txVars, outbound, sent,
                   rxVars, inbound, decVars, ring, playVars, fmt, raw, load, linkVars>>

SpecNorm == InitNorm /\ [][Normalize]_vars

\* ================================================================ claims

\* The k-th frame of the capture stream: samples (k-1)*FRAME_SAMPLES + 1 ..
\* k*FRAME_SAMPLES.
FrameNo(k) == [i \in 1..FRAME_SAMPLES |-> (k - 1) * FRAME_SAMPLES + i]

\* C1: the capture callback hands a frame on exactly when FRAME_SAMPLES
\* samples have accumulated since the last handoff.  Between two passes of
\* the sample loop the accumulator holds fewer than FRAME_SAMPLES samples,
\* every captured sample is either in one of the frames handed on or in the
\* accumulator (so FRAME_SAMPLES - 1 samples never made a frame and the
\* FRAME_SAMPLES-th always did), and the frame the encoder was given last
\* has exactly FRAME_SAMPLES samples, the ones accumulated since the frame
\* before it.
C1_FrameHandoff ==
    /\ Len(frame_buf) < FRAME_SAMPLES
    /\ captured = nFrames * FRAME_SAMPLES + Len(frame_buf)
    /\ frame_buf = [i \in 1..Len(frame_buf) |-> nFrames * FRAME_SAMPLES + i]
    /\ Len(tmp) = FRAME_SAMPLES
    /\ nFrames > 0 => tmp = FrameNo(nFrames)

\* Two frames were handed on and FRAME_SAMPLES - 1 samples wait in the
\* accumulator.
C1_Witness ==
    /\ nFrames = 2
    /\ Len(frame_buf) = FRAME_SAMPLES - 1

\* Every payload the encoder can produce, over ByteVals.
Payloads == SeqsUpTo(ByteVals, MAX_PACKET_SIZE)

\* The length a datagram's first two bytes declare, read little-endian.
Declared(d) == d[1] + 256 * d[2]

\* C2: wire framing round trip.  When the datagram the receive loop took
\* is the message the capture side builds for a payload p of at most
\* MAX_PACKET_SIZE bytes, the loop delivers exactly p; when fewer than two
\* bytes were received, or the declared length exceeds the received bytes
\* after the header, nothing is delivered; and whatever is delivered lies
\* within the bytes received.
C2_WireRoundTrip ==
    nRecv = 1 =>
       LET n == Min(Len(wire), BufSize) IN
       /\ \A p \in Payloads : wire = WireMessage(p) => inbound = <<p>>
       /\ (n < 2 \/ Declared(wire) > n - 2) => inbound = <<>>
       /\ inbound # <<>> =>
             /\ Len(inbound) = 1
             /\ 2 + Len(inbound[1]) <= n
             /\ inbound[1] = SubSeq(wire, 3, 2 + Len(inbound[1]))

\* A message carrying a payload of the maximum length came through whole.
C2_Witness ==
    /\ nRecv = 1
    /\ inbound # <<>>
    /\ Len(inbound[1]) = MAX_PACKET_SIZE
    /\ wire = WireMessage(inbound[1])
    /\ inbound[1][1] # inbound[1][MAX_PACKET_SIZE]

\* C3: the jitter buffer never holds more than RingCap samples, whatever
\* the interleaving of the decode task's pushes and the playback
\* callback's pops; a push that finds it full leaves it as it was (the new
\* sample is the one dropped), a push that finds room appends the sample
\* behind the ones buffered, and no other step adds to it.
C3_JitterDropNewest ==
    /\ [](Len(ring) <= RingCap)
    /\ [][IF pushIdx' = pushIdx + 1
          THEN IF Len(ring) = RingCap
               THEN ring' = ring
               ELSE ring' = Append(ring, pcm_buf[pushIdx])
          ELSE /\ Len(ring') <= Len(ring)
               /\ ring' = SubSeq(ring, Len(ring) - Len(ring') + 1, Len(ring))]_vars

\* Two frames were decoded and pushed with no pop in between: the ring
\* holds the oldest RingCap samples and the rest were dropped.
C3_Witness ==
    /\ nDecoded = 2 * FRAME_SAMPLES
    /\ decpc = "recv"
    /\ played = 0
    /\ ring = [i \in 1..RingCap |-> i]

\* C4: playback underrun.  While a playback callback has samples left to
\* write, its next pass can always be taken, whatever the jitter buffer
\* holds; a pass that finds the buffer empty writes 0.0 and leaves it
\* empty, a pass that finds a sample writes the oldest one and removes it,
\* and either way the callback moves on to its next sample.
C4_UnderrunSilence ==
    /\ []((StreamsPlaying /\ outRem > 0) => ENABLED PlaybackSample)
    /\ [][played' = played + 1 =>
             /\ outRem' = outRem - 1
             /\ IF ring = <<>>
                THEN lastOut' = 0 /\ ring' = <<>>
                ELSE lastOut' = Head(ring) /\ ring' = Tail(ring)]_vars

\* The last callback of the run ended on an empty jitter buffer and wrote
\* silence.
C4_Witness ==
    /\ played = MaxPlay
    /\ outRem = 0
    /\ lastOut = 0
    /\ ring = <<>>

\* C5: a start-up network failure is fatal.  Once network_task has
\* returned an error from bind, discovery or connect, main starts nothing
\* further and no capture callback, playback callback or decode step
\* begins or goes on.
C5_StartupFailureFatal ==
    [][netpc = "failed" =>
          /\ mainpc' \in {mainpc, "exited"}
          /\ inRem' = inRem /\ captured' = captured
          /\ outRem' = outRem /\ played' = played
          /\ decpc' \in {decpc, "done"} /\ nDecoded' = nDecoded]_vars

\* C6: a datagram longer than the receive buffer (MAX_PACKET_SIZE + 2
\* bytes) delivers nothing to the inbound queue.
C6_OversizeRejected ==
    (nRecv = 1 /\ Len(wire) > BufSize) => inbound = <<>>

C8_DeliveredOnlyIfExact ==
    (nRecv = 1 /\ inbound # <<>>) =>
       (Len(wire) >= 2 /\ Declared(wire) = Len(wire) - 2)

\* C8, amended: a payload is delivered only from a datagram of at least
\* two received bytes whose declared length is at most the number of
\* received bytes after the header, and it is exactly the declared number
\* of bytes following the header; a datagram that declares more than
\* follows is dropped; a datagram no longer than the receive buffer that
\* declares fewer bytes than follow is accepted and the bytes past the
\* declared length are ignored.
C8_DeliveredIfDeclaredFits ==
    nRecv = 1 =>
       LET n == Min(Len(wire), BufSize) IN
       /\ inbound # <<>> =>
             /\ n >= 2
             /\ Declared(wire) <= n - 2
             /\ inbound = <<SubSeq(wire, 3, 2 + Declared(wire))>>
       /\ (n >= 2 /\ Declared(wire) > n - 2) => inbound = <<>>
       /\ (Len(wire) >= 2 /\ Len(wire) <= BufSize /\ Declared(wire) <= Len(wire) - 2)
             => inbound = <<SubSeq(wire, 3, 2 + Declared(wire))>>

\* A datagram with bytes after its declared payload was accepted.
C8_Witness ==
    /\ nRecv = 1
    /\ Len(wire) = BufSize
    /\ Declared(wire) = 1
    /\ inbound = <<SubSeq(wire, 3, 3)>>

\* C9: sample_to_f32 maps every sample into [-1, 1], and the least value
\* of each format to -1.
C9_NormalizedRange ==
    norm # <<>> =>
       /\ -norm[2] <= norm[1] /\ norm[1] <= norm[2]
       /\ (fmt = "i16" /\ raw[1] = I16_MIN) => norm[1] = -norm[2]
       /\ (fmt = "u16" /\ raw[1] = 0) => norm[1] = -norm[2]

\* C10: neither hand-off queue ever holds more than CHANNEL_CAP items; a
\* try_send that finds its queue full leaves the queue as it was, and the
\* producer goes on: the capture callback to its next sample, the receive
\* loop to its next datagram.
C10_QueuesBounded ==
    /\ [](Len(outbound) <= CHANNEL_CAP /\ Len(inbound) <= CHANNEL_CAP)
    /\ [][(nFrames' = nFrames + 1 /\ Len(outbound) = CHANNEL_CAP) =>
             (outbound' = outbound /\ inRem' = inRem - 1)]_vars
    /\ [][(nRecv' = nRecv + 1 /\ Len(inbound) = CHANNEL_CAP) =>
             inbound' = inbound]_vars
    /\ []((StreamsPlaying /\ inRem > 0) => ENABLED CaptureSample)
    /\ []((netpc = "running" /\ ~Exited /\ nRecv < load.datagrams)
             => ENABLED RecvStep)

\* Before the send task started, CHANNEL_CAP + 1 frames were encoded: the
\* queue holds the first CHANNEL_CAP of them and the last one was dropped.
C10_Witness ==
    /\ netpc \in {"bind", "discover", "connect"}
    /\ Len(encoded) = CHANNEL_CAP + 1
    /\ outbound = SubSeq(encoded, 1, CHANNEL_CAP)

\* B has lost a frame it encoded: to a full outbound queue or a send error.
BLost == Len(bEncoded) > Len(link) + Len(bOutbound)

\* The decode task has taken the k-th payload A received off the inbound
\* queue and is through with its samples.
Handled(k) ==
    LET taken == nRecv - Len(inbound) IN
    taken > k \/ (taken = k /\ decpc = "recv")

\* A has stopped (a failed start-up), or its decode task stands
\* before a full ring.
LinkStopped ==
    \/ Exited
    \/ NetGone
    \/ (decpc = "push" /\ Len(ring) >= RingCap)

RECURSIVE IsSubseq(_, _)
IsSubseq(a, b) ==
    IF a = <<>> THEN TRUE
    ELSE IF b = <<>> THEN FALSE
    ELSE IF Head(a) = Head(b) THEN IsSubseq(Tail(a), Tail(b))
    ELSE IsSubseq(a, Tail(b))

\* C12: capture-to-network ordering.  The datagrams written to the socket,
\* followed by the messages still waiting in the outbound queue, are the
\* successfully encoded frames in their order with some left out (a frame
\* number appears at most once, because the payload bytes carry it).  The
\* queue changes only by the capture callback appending the frame it has
\* just encoded or by the send task taking the oldest message off; the
\* sent log grows only by that oldest message, and whether or not the send
\* succeeded the message is gone from the queue: nothing is retried or put
\* back.
C12_SentInOrder ==
    /\ [](IsSubseq(sent \o outbound, encoded))
    /\ [][outbound' # outbound =>
             \/ /\ Len(encoded') = Len(encoded) + 1
                /\ outbound' = Append(outbound, encoded'[Len(encoded')])
                /\ sent' = sent
             \/ /\ outbound' = Tail(outbound)
                /\ encoded' = encoded
                /\ sent' \in {sent, Append(sent, Head(outbound))}]_vars
    /\ [][sent' # sent => outbound' = Tail(outbound)]_vars

\* Three frames were encoded with payloads that tell them apart; the first
\* and the third were written to the socket and the second was lost.
C12_Witness ==
    /\ Len(encoded) = 3
    /\ \A i \in 1..3 : Len(encoded[i]) > 2
    /\ sent = <<encoded[1], encoded[3]>>
    /\ outbound = <<>>

\* The elements of a sequence of numbers grow strictly.
Increasing(q) == \A i, j \in 1..Len(q) : i < j => q[i] < q[j]

\* The number of the datagram a queued payload came from (its bytes hold
\* it), for the payloads that have a byte.
Origins(q) == [i \in 1..Len(q) |-> IF q[i] = <<>> THEN 0 ELSE q[i][1]]

\* C13: network-to-playback ordering.  The k-th sample decoded is sample k,
\* and decoding takes the payloads in the order their datagrams were
\* received: the inbound queue holds payloads of ever later datagrams and
\* gives up only its oldest, and the samples a decode writes are numbered
\* on from the last one decoded before.  The ring holds decoded samples in
\* growing order and a push adds nothing but the next decoded sample at
\* its end, or nothing at all.  Every sample the playback callback takes
\* from the ring is the ring's oldest, is removed by that pass (popped
\* once), and comes later in the decoded stream than every sample written
\* before it: the samples written are a subsequence of the decoded stream,
\* and what was dropped on the way is never written later.
C13_PlayedInOrder ==
    /\ [](/\ Increasing(ring)
          /\ \A i \in 1..Len(ring) : heard < ring[i] /\ ring[i] <= nDecoded
          /\ heard <= nDecoded
          /\ decpc = "push" =>
                \A i \in pushIdx..sz :
                   /\ pcm_buf[i] = nDecoded - sz + i
                   /\ \A j \in 1..Len(ring) : ring[j] < pcm_buf[i])
    /\ [](\A i, j \in 1..Len(inbound) :
             (i < j /\ inbound[i] # <<>> /\ inbound[j] # <<>>)
                => Origins(inbound)[i] < Origins(inbound)[j])
    /\ [][inbound' # inbound =>
             \/ inbound # <<>> /\ inbound' = Tail(inbound)
             \/ /\ nRecv' = nRecv + 1
                /\ Len(inbound') = Len(inbound) + 1
                /\ SubSeq(inbound', 1, Len(inbound)) = inbound
                /\ \A i \in 1..Len(inbound'[Len(inbound')]) :
                      inbound'[Len(inbound')][i] = nRecv']_vars
    /\ [][nDecoded' # nDecoded =>
             /\ inbound' = Tail(inbound)
             /\ nDecoded' > nDecoded
             /\ \A i \in 1..(nDecoded' - nDecoded) : pcm_buf'[i] = nDecoded + i
             /\ pushIdx' = 1 /\ sz' = nDecoded' - nDecoded]_vars
    /\ [][ring' # ring =>
             \/ /\ pushIdx' = pushIdx + 1
                /\ ring' = Append(ring, pcm_buf[pushIdx])
                /\ heard' = heard
             \/ /\ played' = played + 1
                /\ ring' = Tail(ring)
                /\ lastOut' = Head(ring)
                /\ heard' = Head(ring)
                /\ heard' > heard]_vars
    /\ [][(played' = played + 1 /\ ring = <<>>) =>
             (lastOut' = Silence /\ heard' = heard)]_vars
    /\ [][heard' # heard => played' = played + 1]_vars

\* Two frames were decoded, a sample of the second was dropped at the full
\* ring, and the callback wrote three samples of which the last is the
\* fourth decoded: the dropped one was passed over.
C13_Witness ==
    /\ nDecoded = 2 * FRAME_SAMPLES
    /\ played = 3
    /\ lastOut = 4
    /\ heard = 4
    /\ ring = <<>>

\* C14: the session mode is fixed at start-up.  Whether a peer address was
\* supplied never changes; the socket is connected at most once, by the
\* step that follows discovery, and only when a peer was supplied; once
\* network_task runs its loops the socket is connected exactly when a peer
\* was supplied and neither that nor the task's position changes again; and
\* for every packet the send task takes, writing it to the socket is
\* possible exactly when a peer was supplied, however many were sent before.
C14_ModeFixedAtStartup ==
    /\ [][peer' = peer]_vars
    /\ [][connected' # connected =>
             /\ netpc = "connect" /\ netpc' = "running"
             /\ peer /\ ~connected /\ connected']_vars
    /\ [](netpc \in {"unspawned", "bind", "discover", "connect"} => ~connected)
    /\ [](netpc = "running" => (connected <=> peer))
    /\ [][netpc = "running" => (netpc' = "running" /\ connected' = connected)]_vars
    /\ []((netpc = "running" /\ ~Exited /\ outbound # <<>>) =>
             (peer <=> ENABLED (SendStep /\ sent' = Append(sent, Head(outbound)))))
    /\ [][sent' # sent => (peer /\ connected)]_vars

\* A connected session sent two packets and a third waits in the queue.
C14_Witness ==
    /\ peer
    /\ connected
    /\ netpc = "running"
    /\ Len(sent) = 2
    /\ Len(outbound) = 1

\* C15: neither audio callback waits on a lock another task can hold.  No
\* mutex the capture callback or the playback callback locks is ever held
\* by another task between steps, and none is among the mutexes another
\* task locks at all; the playback callback locks none; so a pass of
\* either callback that is due can always be taken, wherever the decode
\* task stands; and the pass that completes a frame ends in the same step,
\* whatever try_send found.
C15_CallbacksNeverWait ==
    /\ [](Held(decpc) \cap (CaptureLocks \cup PlaybackLocks) = {})
    /\ []((DecodeLocks \cup NetworkLocks) \cap (CaptureLocks \cup PlaybackLocks) = {})
    /\ [](PlaybackLocks = {})
    /\ []((StreamsPlaying /\ inRem > 0) => ENABLED CaptureSample)
    /\ []((StreamsPlaying /\ outRem > 0) => ENABLED PlaybackSample)
    /\ [][nFrames' = nFrames + 1 => inRem' = inRem - 1]_vars

\* The decode task holds its mutex in the middle of its pushes while the
\* capture callback's next pass completes a frame and locks the encoder,
\* and a playback callback has samples left to write.
C15_Witness ==
    /\ decpc = "push"
    /\ Held(decpc) = {"dec"}
    /\ inRem > 0
    /\ Len(frame_buf) = FRAME_SAMPLES - 1
    /\ outRem > 0

\* C16: a decode failure is not fatal.  The step in which decode_float
\* fails takes the payload off the inbound queue and leaves the ring, the
\* decoder's output buffer and the count of decoded samples as they were;
\* the task is back at inbound.recv(), where the next payload in the queue
\* can always be taken; and a sample is pushed only from a decode that
\* succeeded.
C16_DecodeFailureSkips ==
    /\ [][decErrs' # decErrs =>
             /\ decErrs' = decErrs + 1
             /\ decpc = "recv" /\ decpc' = "recv"
             /\ inbound # <<>> /\ inbound' = Tail(inbound)
             /\ ring' = ring
             /\ pcm_buf' = pcm_buf /\ sz' = sz /\ pushIdx' = pushIdx
             /\ nDecoded' = nDecoded]_vars
    /\ []((decpc = "recv" /\ ~Exited /\ inbound # <<>>) => ENABLED DecodeRecv)
    /\ [][pushIdx' = pushIdx + 1 => (decpc = "push" /\ decErrs' = decErrs)]_vars
    /\ [](decpc = "push" =>
             \A i \in pushIdx..sz : pcm_buf[i] = nDecoded - sz + i)

\* A payload failed to decode, nothing was pushed or played, and the task
\* has gone on to decode the next payload into a full frame.
C16_Witness ==
    /\ decErrs = 1
    /\ decpc = "push"
    /\ pushIdx = 1
    /\ sz = FRAME_SAMPLES
    /\ nDecoded = FRAME_SAMPLES
    /\ ring = <<>>
    /\ played = 0

\* The frame number a message carries in its payload bytes (0: no payload).
FrameOf(m) == IF Len(m) > 2 THEN m[3] ELSE 0

\* C17: an encode failure is not fatal.  The pass in which encode_float
\* fails on a completed frame enqueues nothing and sends nothing, clears
\* the accumulator and ends like any other pass.  The frame is not tried
\* again: a message is only ever built in the pass that completed its frame
\* and carries the number of that frame, so no later message carries the
\* number of a frame that failed.  The frame handed on next is made of the
\* FRAME_SAMPLES samples that follow, and the callback's next pass can
\* always be taken.
C17_EncodeFailureSkips ==
    /\ [][(nFrames' = nFrames + 1 /\ encoded' = encoded) =>
             /\ outbound' = outbound
             /\ sent' = sent
             /\ frame_buf' = <<>>
             /\ inRem' = inRem - 1
             /\ tmp' = FrameNo(nFrames')]_vars
    /\ [][encoded' # encoded =>
             /\ nFrames' = nFrames + 1
             /\ Len(encoded') = Len(encoded) + 1
             /\ SubSeq(encoded', 1, Len(encoded)) = encoded
             /\ FrameOf(encoded'[Len(encoded')]) \in {0, nFrames'}]_vars
    /\ [](/\ nFrames > 0 => tmp = FrameNo(nFrames)
          /\ frame_buf = [i \in 1..Len(frame_buf) |-> nFrames * FRAME_SAMPLES + i]
          /\ \A i \in 1..Len(encoded) : FrameOf(encoded[i]) <= nFrames)
    /\ []((StreamsPlaying /\ inRem > 0) => ENABLED CaptureSample)

\* The first frame failed to encode and left nothing behind; the second
\* frame, made of the samples that followed, was encoded and queued.
C17_Witness ==
    /\ nFrames = 2
    /\ tmp = FrameNo(2)
    /\ encoded = <<WireMessage(Payload(2, MAX_PACKET_SIZE))>>
    /\ outbound = encoded
    /\ sent = <<>>
    /\ frame_buf = <<>>

\* C18: a failure of process_capture_frame never drops a frame.  Whenever
\* the next pass of the capture callback completes a frame, the pass can
\* end with the processing failed and the frame encoded, for every length
\* the encoder can return, and then the message of that length is built
\* and handed to try_send like any other; and in every pass in which the
\* processing failed, the frame went to the encoder and either the encoder
\* failed too and nothing was enqueued, or the message was built and handed
\* to try_send.
C18_ProcessingFailureEncodes ==
    /\ []((StreamsPlaying /\ inRem > 0 /\ Len(frame_buf) = FRAME_SAMPLES - 1) =>
             \A len \in 0..MAX_PACKET_SIZE :
                ENABLED (/\ CaptureSample
                         /\ procFailed'
                         /\ encoded' = Append(encoded, WireMessage(Payload(nFrames + 1, len)))
                         /\ outbound' = TrySend(outbound, encoded'[Len(encoded')], NetGone)))
    /\ [][(nFrames' = nFrames + 1 /\ procFailed') =>
             /\ tmp' = FrameNo(nFrames')
             /\ \/ encoded' = encoded /\ outbound' = outbound
                \/ /\ Len(encoded') = Len(encoded) + 1
                   /\ outbound' = TrySend(outbound, encoded'[Len(encoded')], NetGone)]_vars

\* Processing failed on the second frame, and the frame was encoded to a
\* message of the maximum length that now waits in the outbound queue
\* behind the first.
C18_Witness ==
    /\ nFrames = 2
    /\ procFailed
    /\ Len(encoded) = 2
    /\ encoded[2] = WireMessage(Payload(2, MAX_PACKET_SIZE))
    /\ outbound = encoded

\* The well-formed messages the k-th datagram of a run can be.
ValidDatagrams(k) == {WireMessage([i \in 1..m |-> k]) : m \in 0..MAX_PACKET_SIZE}

\* C19: the send task and the receive task keep running across errors.
\* network_task, once in its loops, never leaves them.  Whatever happened
\* before (a failed send, a failed receive, a malformed datagram), the
\* send task can take the oldest message off the outbound queue, and with
\* a peer can write that message to the socket; the receive task can take
\* the next datagram, and a well-formed one has its payload handed to
\* try_send on the inbound queue.  The step after which a message is gone
\* from the queue and not sent, and the step in which a datagram delivers
\* nothing, change nothing else of network_task.
C19_LoopsSurviveErrors ==
    /\ [][netpc = "running" => netpc' = "running"]_vars
    /\ []((netpc = "running" /\ ~Exited /\ outbound # <<>>) =>
             /\ ENABLED SendStep
             /\ peer => ENABLED (SendStep /\ sent' = Append(sent, Head(outbound))))
    /\ []((netpc = "running" /\ ~Exited /\ nRecv < load.datagrams) =>
             \A d \in ValidDatagrams(nRecv + 1) :
                ENABLED (/\ RecvStep
                         /\ wire' = d
                         /\ inbound' = TrySend(inbound, SubSeq(d, 3, Len(d)), FALSE)))
    /\ [][(nRecv' = nRecv + 1 /\ wire' \in ValidDatagrams(nRecv')) =>
             inbound' = TrySend(inbound, SubSeq(wire', 3, Len(wire')), FALSE)]_vars
    /\ [][(Len(outbound') < Len(outbound) /\ sent' = sent) =>
             (outbound' = Tail(outbound) /\ connected' = connected
              /\ UNCHANGED <<nRecv, wire, buf, inbound>>)]_vars
    /\ [][(nRecv' = nRecv + 1 /\ inbound' = inbound) =>
             (connected' = connected /\ UNCHANGED <<outbound, sent>>)]_vars

\* With a peer: the first frame's send failed and the second frame was
\* sent; the first receive delivered nothing and the second datagram, a
\* well-formed one, had its payload delivered.
C19_Witness ==
    /\ peer
    /\ netpc = "running"
    /\ Len(encoded) = 2
    /\ FrameOf(encoded[1]) = 1
    /\ sent = <<encoded[2]>>
    /\ FrameOf(encoded[2]) = 2
    /\ outbound = <<>>
    /\ nRecv = 2
    /\ wire = WireMessage(<<2, 2>>)
    /\ inbound = << <<2, 2>> >>

\* C20: every message the capture callback builds, and so every message in
\* the outbound queue, has a 2-byte header that read little-endian is the
\* length of the payload behind it, a payload of at most MAX_PACKET_SIZE
\* bytes and a length of at most MAX_PACKET_SIZE + 2; the queue holds
\* nothing but messages the callback built; and `len as u16` changes no
\* length up to the source's MAX_PACKET_SIZE of 400.
C20_MessagesWellFramed ==
    /\ \A i \in 1..Len(encoded) :
          LET m == encoded[i] IN
          /\ Len(m) >= 2
          /\ m[1] + 256 * m[2] = Len(m) - 2
          /\ Len(m) - 2 <= MAX_PACKET_SIZE
          /\ Len(m) <= MAX_PACKET_SIZE + 2
    /\ \A i \in 1..Len(outbound) : \E j \in 1..Len(encoded) : outbound[i] = encoded[j]
    /\ \A n \in 0..MAX_PACKET_SIZE_SRC : AsU16(n) = n

\* A message with a payload of the maximum length is in the outbound
\* queue.
C20_Witness ==
    /\ outbound # <<>>
    /\ Len(outbound[1]) = MAX_PACKET_SIZE + 2
    /\ outbound[1][1] = MAX_PACKET_SIZE

\* C21: frame assembly does not depend on how the capture stream is cut
\* into callbacks.  However the samples delivered so far were split into
\* callback buffers of 1 to MaxChunk samples (shorter than a frame, longer
\* than a frame, not a multiple of it), and also in the middle of a
\* callback: the number of frames handed on is the number of samples
\* delivered divided by FRAME_SAMPLES, rounded down; the accumulator holds
\* the remainder, in order, and these are the samples delivered last; the
\* frame handed on last is the block of FRAME_SAMPLES samples that ends at
\* the last multiple of FRAME_SAMPLES.  Frames are handed on one at a time,
\* each in the pass that delivers the last sample of its block, and a
\* callback's beginning or end changes nothing of the accumulator or the
\* frames.
C21_ChunkingIndependent ==
    /\ [](/\ nFrames = captured \div FRAME_SAMPLES
          /\ Len(frame_buf) = captured % FRAME_SAMPLES
          /\ \A i \in 1..Len(frame_buf) :
                frame_buf[i] = captured - Len(frame_buf) + i
          /\ nFrames > 0 =>
                tmp = [i \in 1..FRAME_SAMPLES |-> (nFrames - 1) * FRAME_SAMPLES + i])
    /\ [][nFrames' # nFrames =>
             /\ nFrames' = nFrames + 1
             /\ captured' = captured + 1
             /\ captured' = nFrames' * FRAME_SAMPLES
             /\ tmp' = Append(frame_buf, captured')]_vars
    /\ [][captured' # captured =>
             /\ captured' = captured + 1
             /\ inRem' = inRem - 1]_vars
    /\ [][captured' = captured => UNCHANGED <<frame_buf, tmp, nFrames>>]_vars

\* Two frames and one sample were delivered and the callback has returned:
\* whatever buffers of at most MaxChunk samples brought them, one of them
\* was not a whole number of frames; two frames were handed on and the odd
\* sample waits in the accumulator.
C21_Witness ==
    /\ captured = 2 * FRAME_SAMPLES + 1
    /\ inRem = 0
    /\ nFrames = 2
    /\ tmp = FrameNo(2)
    /\ frame_buf = <<2 * FRAME_SAMPLES + 1>>

====
